---------------------------- MODULE Spec2Model ----------------------------
(***************************************************************************)
(* The Nash adapter of openlimits (src/src/exchange/nash): request         *)
(* translation, transport invocation, response translation, the mapping    *)
(* of WebSocket subscriptions and push messages (with the Coinbase         *)
(* subscription mapping), and the exchange-info cache behind               *)
(* refresh_market_info / get_pair.                                         *)
(*                                                                         *)
(* Spec     : one capability call per behaviour.  Init draws the call and  *)
(*            its request, the handler's action runs it to completion.     *)
(* SpecInfo : the adapter's exchange-info cache under concurrent           *)
(*            refresh_market_info tasks and get_pair readers.              *)
(***************************************************************************)
EXTENDS Integers, Sequences, FiniteSets, TLC

VARIABLES
    pc,             \* position of the call: "start" | "native" | "done"
    call,           \* the capability call: [op, req]
    split,          \* the handler's local (before, limit, range) = try_split_paginator(..)
    sent,           \* native requests handed to the transport during the call
    ret,            \* what the call returned (Ok / Err) or that it panicked
    exchange_info,  \* Nash.exchange_info: symbol -> MarketPair
    tasks,          \* refresh_market_info tasks: task -> "idle" | "awaiting"
    committed,      \* history: markets of every reply a refresh has installed
    last            \* the last step of the cache machine: what was asked, answered, returned

vars == <<pc, call, split, sent, ret, exchange_info, tasks, committed, last>>

callVars == <<pc, call, split, sent, ret>>

infoVars == <<exchange_info, tasks, committed, last>>

---------------------------------------------------------------------------
(* Bounds of the model *)

\* width of the paginator limit in bits, standing for u64 / i64
IntBits == 2

\* longest pagination cursor
MaxCursorLen == 2

\* largest timestamp of a time window
MaxTime == 1

\* longest order_status filter of a GetOrderHistoryRequest
MaxStatuses == 1

---------------------------------------------------------------------------
(* Option and Result *)

None == [some |-> FALSE]

Some(v) == [some |-> TRUE, v |-> v]

Opt(S) == {None} \cup {Some(v) : v \in S}

Ok(v) == [kind |-> "Ok", v |-> v]

Err(e) == [kind |-> "Err", err |-> e]

Panic(m) == [kind |-> "Panic", msg |-> m]

NoValue == [kind |-> "None"]

InvalidParameter(m) == [kind |-> "InvalidParameter", msg |-> m]

MissingImplementation(m) == [kind |-> "MissingImplementation", msg |-> m]

NashProtocolError(e) == [kind |-> "NashProtocolError", inner |-> e]

SeqsUpTo(S, n) == UNION {[1..k -> S] : k \in 0..n}

---------------------------------------------------------------------------
(* Pagination translator: src/src/exchange/nash/utils.rs *)

U64Max == 2^IntBits - 1

I64Max == 2^(IntBits - 1) - 1

Chars == {"a", "b"}

Cursors == SeqsUpTo(Chars, MaxCursorLen)

Paginators ==
    [before : Opt(Cursors), limit : Opt(0..U64Max),
     start_time : Opt(0..MaxTime), end_time : Opt(0..MaxTime)]

\* `v as i64`: the two's-complement reinterpretation
i64_wrapping_cast(v) == Ok(IF v > I64Max THEN v - 2^IntBits ELSE v)

\* i64::try_from(v: u64)
i64_try_from(v) == IF v <= I64Max THEN Ok(v) ELSE Err("TryFromIntError")

\* an empty cursor taken for an absent one
try_split_paginator_empty_before(paginator) ==
    IF ~paginator.some THEN Ok(<<None, None, None>>)
    ELSE LET p == paginator.v
             limit == IF p.limit.some THEN i64_try_from(p.limit.v) ELSE Ok(0)
         IN  IF limit.kind = "Err"
             THEN Err(InvalidParameter("Couldn't convert paginator limit to i64"))
             ELSE Ok(<<IF p.before.some /\ p.before.v = <<>> THEN None ELSE p.before,
                       IF p.limit.some THEN Some(limit.v) ELSE None,
                       IF p.start_time.some /\ p.end_time.some
                       THEN Some([start |-> [utc_ms |-> p.start_time.v],
                                  stop |-> [utc_ms |-> p.end_time.v]])
                       ELSE None>>)

try_split_paginator(paginator) ==
    IF ~paginator.some THEN Ok(<<None, None, None>>)
    ELSE LET p == paginator.v
             limit == IF p.limit.some THEN i64_try_from(p.limit.v) ELSE Ok(0)
         IN  IF limit.kind = "Err"
             THEN Err(InvalidParameter("Couldn't convert paginator limit to i64"))
             ELSE Ok(<<p.before,
                       IF p.limit.some THEN Some(limit.v) ELSE None,
                       IF p.start_time.some /\ p.end_time.some
                       THEN Some([start |-> [utc_ms |-> p.start_time.v],
                                  stop |-> [utc_ms |-> p.end_time.v]])
                       ELSE None>>)

\* native -> domain, for cursor continuation (spec 4.4)
join_paginator(before, limit, range) ==
    [before |-> before,
     limit |-> IF limit.some /\ limit.v >= 0 THEN Some(limit.v) ELSE None,
     start_time |-> IF range.some THEN Some(range.v.start.utc_ms) ELSE None,
     end_time |-> IF range.some THEN Some(range.v.stop.utc_ms) ELSE None]

---------------------------------------------------------------------------
(* Enum translation: src/src/exchange/nash/mod.rs *)

\* crate::model::OrderStatus
OrderStatus ==
    {"New", "PartiallyFilled", "Filled", "Canceled", "PendingCancel",
     "Rejected", "Expired", "Open", "Pending", "Active"}

\* crate::model::OrderType
OrderType == {"Limit", "Market", "StopLimit", "StopMarket", "Unknown"}

\* crate::model::Side
Side == {"Buy", "Sell"}

\* a value of a nash_protocol::types enum
Nash(x) == [nash |-> x]

NashOrderStatus == {Nash(x) : x \in {"Filled", "Open", "Canceled", "Pending"}}

NashOrderType == {Nash(x) : x \in {"Limit", "Market", "StopLimit", "StopMarket"}}

BuyOrSell == {Nash(x) : x \in {"Buy", "Sell"}}

\* the Open and Pending arms exchanged
OrderStatus_from_swapped(status) ==
    CASE status = Nash("Filled") -> "Filled"
      [] status = Nash("Open") -> "Pending"
      [] status = Nash("Canceled") -> "Canceled"
      [] status = Nash("Pending") -> "Open"

\* From<nash_protocol::types::OrderStatus> for OrderStatus
OrderStatus_from(status) ==
    CASE status = Nash("Filled") -> "Filled"
      [] status = Nash("Open") -> "Open"
      [] status = Nash("Canceled") -> "Canceled"
      [] status = Nash("Pending") -> "Pending"

\* TryFrom<OrderStatus> for nash_protocol::types::OrderStatus
NashOrderStatus_try_from(status) ==
    CASE status = "Filled" -> Ok(Nash("Filled"))
      [] status = "Open" -> Ok(Nash("Open"))
      [] status = "Canceled" -> Ok(Nash("Canceled"))
      [] status = "Pending" -> Ok(Nash("Pending"))
      [] OTHER -> Err(InvalidParameter("Had invalid order status for Nash"))

\* From<nash_protocol::types::OrderType> for OrderType
OrderType_from(order_type) ==
    CASE order_type = Nash("Limit") -> "Limit"
      [] order_type = Nash("Market") -> "Market"
      [] order_type = Nash("StopLimit") -> "StopLimit"
      [] order_type = Nash("StopMarket") -> "StopMarket"

\* TryFrom<OrderType> for nash_protocol::types::OrderType
NashOrderType_try_from(order_type) ==
    CASE order_type = "Limit" -> Ok(Nash("Limit"))
      [] order_type = "Market" -> Ok(Nash("Market"))
      [] order_type = "StopLimit" -> Ok(Nash("StopLimit"))
      [] order_type = "StopMarket" -> Ok(Nash("StopMarket"))
      [] order_type = "Unknown" ->
            Err(InvalidParameter("Had invalid order type for Nash"))

\* From<nash_protocol::types::BuyOrSell> for Side
Side_from(side) ==
    CASE side = Nash("Buy") -> "Buy"
      [] side = Nash("Sell") -> "Sell"

\* From<Side> for BuyOrSell
BuyOrSell_from(side) ==
    CASE side = "Buy" -> Nash("Buy")
      [] side = "Sell" -> Nash("Sell")

\* From<nash_protocol::types::AccountTradeSide> for Liquidity
Liquidity_from(side) ==
    IF side = Nash("Taker") THEN "Taker" ELSE "Maker"

\* crate::model::Interval, the variants the adapter and its tests name
Interval ==
    {"OneMinute", "FiveMinutes", "FifteenMinutes", "ThirtyMinutes", "OneHour",
     "SixHours", "TwelveHours", "OneDay", "TwoHours"}

\* TryFrom<Interval> for nash_protocol::types::CandleInterval
CandleInterval_try_from(interval) ==
    CASE interval = "OneMinute" -> Ok(Nash("OneMinute"))
      [] interval = "FiveMinutes" -> Ok(Nash("FiveMinute"))
      [] interval = "FifteenMinutes" -> Ok(Nash("FifteenMinute"))
      [] interval = "ThirtyMinutes" -> Ok(Nash("ThirtyMinute"))
      [] interval = "OneHour" -> Ok(Nash("OneHour"))
      [] interval = "SixHours" -> Ok(Nash("SixHour"))
      [] interval = "TwelveHours" -> Ok(Nash("TwelveHour"))
      [] interval = "OneDay" -> Ok(Nash("OneDay"))
      [] OTHER -> Err(MissingImplementation("Not supported interval"))

---------------------------------------------------------------------------
(* Decimal arithmetic as the adapter uses it: a value is num * 10^-scale *)

Dec(n, s) == [num |-> n, scale |-> s]

\* Decimal::from_str(&x.to_string()): the digits and the scale, read lexically
Decimal_from_str(x) == Dec(x.num, x.scale)

\* a + b
Decimal_add(a, b) ==
    LET s == IF a.scale >= b.scale THEN a.scale ELSE b.scale
    IN  Dec(a.num * 10^(s - a.scale) + b.num * 10^(s - b.scale), s)

\* a / Decimal::from(2)
Decimal_half(a) ==
    IF a.num % 2 = 0 THEN Dec(a.num \div 2, a.scale)
    ELSE Dec(a.num * 5, a.scale + 1)

---------------------------------------------------------------------------
(* Bounds of the response payloads *)

\* longest list of candles, trades or orders in a response
MaxItems == 1

\* prices run from PriceBase to PriceBase + MaxTick, in units of 10^-PriceScale
PriceBase == 1000

MaxTick == 2

PriceScale == 2

\* largest amount of an asset, in units of 1 and of 10^-1
MaxAmount == 1

\* refresh_market_info tasks that may run at once
MaxTasks == 2

\* largest precision of a market's base asset
MaxPrecision == 2

---------------------------------------------------------------------------
(* The transport's answers *)

ProtocolErrors == {"timeout", "invalid_signature"}

TransportErr(e) == [kind |-> "Err", err |-> e]

EnvelopeError(e) == [kind |-> "Ok", env |-> [kind |-> "Error", err |-> e]]

EnvelopeResponse(r) == [kind |-> "Ok", env |-> [kind |-> "Response", resp |-> r]]

Replies(payloads) ==
    {TransportErr(e) : e \in ProtocolErrors}
        \cup {EnvelopeError(e) : e \in ProtocolErrors}
        \cup {EnvelopeResponse(r) : r \in payloads}

\* the error of an envelope replaced by one of the adapter's own
unwrap_response_masking(resp) ==
    IF resp.kind = "Ok"
    THEN IF resp.env.kind = "Response" THEN Ok(resp.env.resp)
         ELSE Err(NashProtocolError("request failed"))
    ELSE Err(NashProtocolError(resp.err))

\* Nash::unwrap_response
unwrap_response(resp) ==
    IF resp.kind = "Ok"
    THEN IF resp.env.kind = "Response" THEN Ok(resp.env.resp)
         ELSE Err(NashProtocolError(resp.env.err))
    ELSE Err(NashProtocolError(resp.err))

Exchange(via, req, reply) == [via |-> via, req |-> req, reply |-> reply]

---------------------------------------------------------------------------
(* Response translation: src/src/exchange/nash/mod.rs *)

AccountTradeSide == {Nash(x) : x \in {"Maker", "Taker", "None"}}

NativeTrades ==
    {[id |-> "t1", executed_at |-> 1, taker_fee |-> Dec(25, 4),
      account_side |-> s, market |-> "eth_btc", taker_order_id |-> "o-taker",
      maker_order_id |-> "o-maker", limit_price |-> Dec(PriceBase, PriceScale),
      amount |-> Dec(3, 1), direction |-> d] :
        s \in AccountTradeSide, d \in BuyOrSell}

\* the order ids assigned as for a Buy whatever the direction
Trade_from_ids_as_buy(resp) ==
    [id |-> resp.id,
     created_at |-> resp.executed_at,
     fees |-> Some(IF resp.account_side = Nash("Taker")
                   THEN Decimal_from_str(resp.taker_fee) ELSE Dec(0, 0)),
     liquidity |-> Some(Liquidity_from(resp.account_side)),
     market_pair |-> resp.market,
     buyer_order_id |-> Some(resp.taker_order_id),
     seller_order_id |-> Some(resp.maker_order_id),
     price |-> Decimal_from_str(resp.limit_price),
     qty |-> Decimal_from_str(resp.amount),
     side |-> Side_from(resp.direction)]

\* From<nash_protocol::types::Trade> for Trade
Trade_from(resp) ==
    [id |-> resp.id,
     created_at |-> resp.executed_at,
     fees |-> Some(IF resp.account_side = Nash("Taker")
                   THEN Decimal_from_str(resp.taker_fee) ELSE Dec(0, 0)),
     liquidity |-> Some(Liquidity_from(resp.account_side)),
     market_pair |-> resp.market,
     buyer_order_id |-> Some(IF resp.direction = Nash("Buy")
                             THEN resp.taker_order_id ELSE resp.maker_order_id),
     seller_order_id |-> Some(IF resp.direction = Nash("Buy")
                              THEN resp.maker_order_id ELSE resp.taker_order_id),
     price |-> Decimal_from_str(resp.limit_price),
     qty |-> Decimal_from_str(resp.amount),
     side |-> Side_from(resp.direction)]

NativeCandles ==
    {[close_price |-> Dec(PriceBase + 1, PriceScale),
      high_price |-> Dec(PriceBase + MaxTick, PriceScale),
      low_price |-> Dec(PriceBase, PriceScale),
      open_price |-> Dec(PriceBase, PriceScale),
      a_volume |-> Dec(7, 0), interval_start |-> 1]}

\* From<nash_protocol::types::Candle> for Candle
Candle_from(candle) ==
    [close |-> Decimal_from_str(candle.close_price),
     high |-> Decimal_from_str(candle.high_price),
     low |-> Decimal_from_str(candle.low_price),
     open |-> Decimal_from_str(candle.open_price),
     time |-> candle.interval_start,
     volume |-> Decimal_from_str(candle.a_volume)]

NativeOrders ==
    {[id |-> "o1", market |-> "eth_btc", placed_at |-> 1,
      order_type |-> Nash("Limit"), buy_or_sell |-> Nash("Buy"),
      status |-> Nash("Open"), amount_placed |-> Dec(3, 1),
      limit_price |-> Some(Dec(PriceBase, PriceScale)),
      amount_remaining |-> Dec(3, 1), trades |-> <<>>],
     [id |-> "o2", market |-> "eth_btc", placed_at |-> 1,
      order_type |-> Nash("Market"), buy_or_sell |-> Nash("Sell"),
      status |-> Nash("Filled"), amount_placed |-> Dec(3, 1),
      limit_price |-> None,
      amount_remaining |-> Dec(0, 0),
      trades |-> <<CHOOSE t \in NativeTrades :
                     t.direction = Nash("Sell") /\ t.account_side = Nash("Taker")>>]}

\* From<nash_protocol::types::Order> for Order
Order_from(order) ==
    [id |-> order.id,
     market_pair |-> order.market,
     client_order_id |-> None,
     created_at |-> Some(order.placed_at),
     order_type |-> OrderType_from(order.order_type),
     side |-> Side_from(order.buy_or_sell),
     status |-> OrderStatus_from(order.status),
     size |-> Decimal_from_str(order.amount_placed),
     price |-> IF order.limit_price.some
               THEN Some(Decimal_from_str(order.limit_price.v)) ELSE None,
     remaining |-> Some(Decimal_from_str(order.amount_remaining)),
     trades |-> [i \in DOMAIN order.trades |-> Trade_from(order.trades[i])]]

Prices == {Dec(PriceBase + k, PriceScale) : k \in 0..MaxTick}

TickerResponses ==
    [best_bid_price : Opt(Prices), best_ask_price : Opt(Prices),
     high_price_24h : Opt(Prices), low_price_24h : Opt(Prices)]

\* the mean taken in whole units of the price scale
Ticker_from_truncating(resp) ==
    [price |->
        IF resp.best_ask_price.some /\ resp.best_bid_price.some
        THEN Some(Dec((resp.best_ask_price.v.num + resp.best_bid_price.v.num) \div 2,
                      PriceScale))
        ELSE None,
     price_24h |->
        IF resp.high_price_24h.some /\ resp.low_price_24h.some
        THEN Some(Decimal_half(Decimal_add(Decimal_from_str(resp.high_price_24h.v),
                                           Decimal_from_str(resp.low_price_24h.v))))
        ELSE None]

\* From<nash_protocol::protocol::get_ticker::TickerResponse> for Ticker
Ticker_from(resp) ==
    [price |->
        IF resp.best_ask_price.some /\ resp.best_bid_price.some
        THEN Some(Decimal_half(Decimal_add(Decimal_from_str(resp.best_ask_price.v),
                                           Decimal_from_str(resp.best_bid_price.v))))
        ELSE None,
     price_24h |->
        IF resp.high_price_24h.some /\ resp.low_price_24h.some
        THEN Some(Decimal_half(Decimal_add(Decimal_from_str(resp.high_price_24h.v),
                                           Decimal_from_str(resp.low_price_24h.v))))
        ELSE None]

Assets == {"btc", "eth"}

Amounts == {Dec(n, s) : n \in 0..MaxAmount, s \in 0..1}

\* a map over some of the assets
AssetMaps == UNION {[A -> Amounts] : A \in SUBSET Assets}

BalancesResponses == [state_channel : AssetMaps, in_orders : AssetMaps]

\* the amount in orders left out of the total
Balance_of_free_only(resp, asset) ==
    LET free == Decimal_from_str(resp.state_channel[asset])
    IN  [asset |-> asset, total |-> free, free |-> free]

\* the body of the loop of Nash::get_account_balances, for one asset
Balance_of(resp, asset) ==
    LET free == Decimal_from_str(resp.state_channel[asset])
        in_orders == Decimal_from_str(resp.in_orders[asset])
    IN  [asset |-> asset, total |-> Decimal_add(free, in_orders), free |-> free]

\* the orders in which a map's keys may be iterated
KeyOrders(m) ==
    {o \in [1..Cardinality(DOMAIN m) -> DOMAIN m] :
        \A i, j \in DOMAIN o : i # j => o[i] # o[j]}

---------------------------------------------------------------------------
(* Requests *)

Market == "eth_btc"

\* the statuses an order_status filter is drawn from
StatusInputs == {"Open", "Filled", "Rejected"}

EnumFields == {"status", "order_type", "side"}

---------------------------------------------------------------------------
(* Order books: src/src/exchange/nash/mod.rs *)

\* the price strings of an order book: decimal numerals and one that is none
PriceStrings == {"10.00", "10.02", "1o.oo"}

\* Decimal::from_str(s) of a price string
Decimal_parse(s) ==
    CASE s = "10.00" -> Ok(Dec(1000, 2))
      [] s = "10.02" -> Ok(Dec(1002, 2))
      [] OTHER -> Err("Invalid decimal: unknown character")

\* nash_protocol::types::OrderbookOrder
OrderbookOrders == {[price |-> p, amount |-> Dec(3, 1)] : p \in PriceStrings}

\* the update ids of an order book, as the signed integers the venue sends
UpdateIds == {-1, 1}

\* v as u64
u64_wrapping_cast(v) == IF v < 0 THEN v + 2^IntBits ELSE v

OrderbookResponses ==
    [update_id : UpdateIds, last_update_id : UpdateIds,
     asks : SeqsUpTo(OrderbookOrders, MaxItems),
     bids : SeqsUpTo(OrderbookOrders, MaxItems)]

\* From<nash_protocol::types::OrderbookOrder> for AskBid
AskBid_from(resp) ==
    IF Decimal_parse(resp.price).kind = "Err"
    THEN Panic("Couldn't parse Decimal from string.")
    ELSE Ok([price |-> Decimal_parse(resp.price).v,
             qty |-> Decimal_from_str(resp.amount)])

\* orders.into_iter().map(Into::into).collect(): every AskBid, or the panic
AskBids_of(orders) ==
    IF \E i \in DOMAIN orders : AskBid_from(orders[i]).kind = "Panic"
    THEN Panic("Couldn't parse Decimal from string.")
    ELSE Ok([i \in DOMAIN orders |-> AskBid_from(orders[i]).v])

\* From<OrderbookResponse> for OrderBookResponse; the same fields in the
\* Orderbook arm of TryFrom<SubscriptionResponseWrapper>
OrderBookResponse_from(book) ==
    IF AskBids_of(book.bids).kind = "Panic" THEN AskBids_of(book.bids)
    ELSE IF AskBids_of(book.asks).kind = "Panic" THEN AskBids_of(book.asks)
    ELSE Ok([update_id |-> Some(u64_wrapping_cast(book.update_id)),
             last_update_id |-> Some(u64_wrapping_cast(book.last_update_id)),
             bids |-> AskBids_of(book.bids).v,
             asks |-> AskBids_of(book.asks).v])

---------------------------------------------------------------------------
(* WebSocket normalization: src/src/exchange/nash/mod.rs and                 *)
(* src/src/exchange/coinbase/model/websocket/coinbase_subscription.rs        *)

\* longest order_type or status list of an AccountOrders filter
MaxFilter == 2

\* the order types an AccountOrders filter is drawn from
TypeInputs == {"Limit", "Unknown"}

\* crate::model::websocket::AccountOrders
AccountOrders ==
    [market : Opt({Market}),
     order_type : Opt(SeqsUpTo(TypeInputs, MaxFilter)),
     range : Opt({[start |-> 0, end |-> MaxTime]}),
     buy_or_sell : Opt(Side),
     status : Opt(SeqsUpTo(StatusInputs, MaxFilter))]

\* crate::model::websocket::Subscription, the variants the adapters and the
\* tests name
Subscription ==
    {[variant |-> "OrderBookUpdates", market |-> Market],
     [variant |-> "Trades", market |-> Market],
     [variant |-> "AccountTrades", market_name |-> Market],
     [variant |-> "AccountBalance", symbol |-> "eth"],
     [variant |-> "OrderBook", symbol |-> "bnbbtc", depth |-> 5]}
        \cup {[variant |-> "AccountOrders", account_orders |-> f] :
                f \in AccountOrders}

\* .map(|x| x.try_into().ok()).filter(|x| x.is_some()).map(|x| x.unwrap()):
\* the values of the conversions that succeeded, in their order
RECURSIVE Somes(_)
Somes(rs) ==
    IF rs = <<>> THEN <<>>
    ELSE (IF Head(rs).kind = "Ok" THEN <<Head(rs).v>> ELSE <<>>) \o Somes(Tail(rs))

\* From<AccountOrders> for SubscribeAccountOrders
SubscribeAccountOrders_from(account_orders) ==
    [market |-> account_orders.market,
     order_type |->
        IF account_orders.order_type.some
        THEN Some(Somes([i \in DOMAIN account_orders.order_type.v |->
                            NashOrderType_try_from(account_orders.order_type.v[i])]))
        ELSE None,
     range |->
        IF account_orders.range.some
        THEN Some([start |-> [utc_ms |-> account_orders.range.v.start],
                   stop |-> [utc_ms |-> account_orders.range.v.end]])
        ELSE None,
     buy_or_sell |->
        IF account_orders.buy_or_sell.some
        THEN Some(BuyOrSell_from(account_orders.buy_or_sell.v)) ELSE None,
     status |->
        IF account_orders.status.some
        THEN Some(Somes([i \in DOMAIN account_orders.status.v |->
                            NashOrderStatus_try_from(account_orders.status.v[i])]))
        ELSE None]

\* From<Subscription> for nash_protocol SubscriptionRequest
SubscriptionRequest_from(sub) ==
    CASE sub.variant = "OrderBookUpdates" ->
            Ok([request |-> "Orderbook", market |-> sub.market])
      [] sub.variant = "Trades" ->
            Ok([request |-> "Trades", market |-> sub.market])
      [] sub.variant = "AccountOrders" ->
            Ok([request |-> "AccountOrders",
                filter |-> SubscribeAccountOrders_from(sub.account_orders)])
      [] sub.variant = "AccountTrades" ->
            Ok([request |-> "AccountTrades", market_name |-> sub.market_name])
      [] sub.variant = "AccountBalance" ->
            Ok([request |-> "AccountBalances", symbol |-> Some(sub.symbol)])
      [] OTHER -> Panic("Not supported Subscription")

\* From<Subscription> for CoinbaseSubscription
CoinbaseSubscription_from(subscription) ==
    CASE subscription.variant = "OrderBookUpdates" ->
            Ok([channel |-> "Level2", symbol |-> subscription.market])
      [] OTHER -> Panic("not implemented")

\* nash_protocol SubscriptionResponse: the push messages of the venue
SubscriptionResponse ==
    {[kind |-> "Orderbook", orderbook |-> b] : b \in OrderbookResponses}
        \cup {[kind |-> "Trades", trades |-> t] :
                t \in SeqsUpTo(NativeTrades, MaxItems)}
        \cup {[kind |-> "Ticker", ticker |-> t] : t \in Prices}
        \cup {[kind |-> "AccountTrades", account_trades |-> t] :
                t \in SeqsUpTo(NativeTrades, MaxItems)}
        \cup {[kind |-> "AccountOrders", account_orders |-> o] : o \in NativeOrders}
        \cup {[kind |-> "AccountBalances", balance |-> a] : a \in Amounts}

Generic(type, payload) ==
    [class |-> "Generic", message |-> [type |-> type, payload |-> payload]]

Raw(value) == [class |-> "Raw", raw |-> value]

\* every message taken for a raw one
WebSocketResponse_try_from_all_raw(value) == Ok(Raw(value))

\* TryFrom<SubscriptionResponseWrapper> for WebSocketResponse
WebSocketResponse_try_from(value) ==
    CASE value.kind = "Orderbook" ->
            IF OrderBookResponse_from(value.orderbook).kind = "Panic"
            THEN OrderBookResponse_from(value.orderbook)
            ELSE Ok(Generic("OrderBook", OrderBookResponse_from(value.orderbook).v))
      [] value.kind = "Trades" ->
            Ok(Generic("Trades",
                       [i \in DOMAIN value.trades |-> Trade_from(value.trades[i])]))
      [] value.kind = "Ticker" -> Ok(Raw(value))
      [] value.kind = "AccountTrades" -> Ok(Raw(value))
      [] value.kind = "AccountOrders" -> Ok(Raw(value))
      [] value.kind = "AccountBalances" -> Ok(Raw(value))

---------------------------------------------------------------------------
(* Order placement and cancellation: src/src/exchange/nash/mod.rs *)

\* crate::model::TimeInForce
TimeInForce ==
    {[tif |-> "GoodTillCancelled"], [tif |-> "FillOrKill"],
     [tif |-> "ImmediateOrCancelled"]}
        \cup {[tif |-> "GoodTillTime", duration |-> d] : d \in 0..MaxTime}

\* From<TimeInForce> for OrderCancellationPolicy, Utc::now() being `now`
OrderCancellationPolicy_from(tif, now) ==
    CASE tif.tif = "GoodTillCancelled" -> [policy |-> "GoodTilCancelled"]
      [] tif.tif = "FillOrKill" -> [policy |-> "FillOrKill"]
      [] tif.tif = "ImmediateOrCancelled" -> [policy |-> "ImmediateOrCancel"]
      [] tif.tif = "GoodTillTime" ->
            [policy |-> "GoodTilTime", expire_time |-> now + tif.duration]

\* format!("{}", d): the integer part, the point, the fraction at its scale
Decimal_to_string(d) ==
    [int |-> d.num \div 10^d.scale, frac |-> d.num % 10^d.scale,
     digits |-> d.scale]

\* the sizes and prices an order is placed with
Sizes == {Dec(3, 1), Dec(MaxAmount, 0)}

OrderIds == {"o1", "o2"}

\* Nash::convert_limit_order
convert_limit_order(req, buy_or_sell, now) ==
    [client_order_id |-> None,
     cancellation_policy |-> OrderCancellationPolicy_from(req.time_in_force, now),
     allow_taker |-> ~req.post_only,
     market |-> req.market_pair,
     buy_or_sell |-> buy_or_sell,
     amount |-> Decimal_to_string(req.size),
     price |-> Decimal_to_string(req.price)]

\* Nash::convert_market_request
convert_market_request(req) ==
    [client_order_id |-> None,
     market |-> req.market_pair,
     amount |-> Decimal_to_string(req.size)]

\* nash_protocol place_order::PlaceOrderResponse
PlaceOrderResponses ==
    [order_id : {"o1"}, market_name : {Market}, placed_at : {1},
     order_type : {Nash("Limit"), Nash("Market")}, buy_or_sell : BuyOrSell,
     status : {Nash("Open"), Nash("Filled")}]

\* the order taken for wholly unfilled: nothing remaining instead of unknown
Order_from_placed_remaining_zero(resp) ==
    [id |-> resp.order_id,
     market_pair |-> resp.market_name,
     client_order_id |-> None,
     created_at |-> Some(resp.placed_at),
     order_type |-> OrderType_from(resp.order_type),
     side |-> Side_from(resp.buy_or_sell),
     status |-> OrderStatus_from(resp.status),
     size |-> Dec(0, 0),
     price |-> None,
     remaining |-> Some(Dec(0, 0)),
     trades |-> <<>>]

\* From<PlaceOrderResponse> for Order
Order_from_placed(resp) ==
    [id |-> resp.order_id,
     market_pair |-> resp.market_name,
     client_order_id |-> None,
     created_at |-> Some(resp.placed_at),
     order_type |-> OrderType_from(resp.order_type),
     side |-> Side_from(resp.buy_or_sell),
     status |-> OrderStatus_from(resp.status),
     size |-> Dec(0, 0),
     price |-> None,
     remaining |-> None,
     trades |-> <<>>]

\* From<&CancelOrderRequest> for nash CancelOrderRequest
CancelOrderRequest_from(req) ==
    IF ~req.market_pair.some THEN Panic("Couldn't get market_pair.")
    ELSE Ok([market |-> req.market_pair.v, order_id |-> req.id])

\* From<&CancelAllOrdersRequest> for CancelAllOrders
CancelAllOrders_from(req) ==
    IF ~req.market_pair.some THEN Panic("Market pair is a required param for Nash")
    ELSE Ok([market |-> req.market_pair.v])

\* nash_protocol cancel_order::CancelOrderResponse
CancelOrderResponses == [order_id : OrderIds]

\* From<CancelOrderResponse> for OrderCanceled
OrderCanceled_from(resp) == [id |-> resp.order_id]

\* `?` on the transport's own Result: From<ProtocolError> for OpenLimitsError
OpenLimitsError_from(err) == NashProtocolError(err)

Ops ==
    {"get_historic_rates", "get_historic_trades", "get_trade_history",
     "get_order_history", "get_price_ticker", "get_account_balances",
     "enums_from_domain", "enums_from_native",
     "order_book", "cancel_all_orders", "cancel_order", "get_all_open_orders",
     "limit_buy", "limit_sell", "market_sell", "market_buy", "get_order",
     "subscribe", "coinbase_subscribe", "websocket_response",
     "unwrap_response"}

\* the requests of one operation
Requests(op) ==
    CASE op = "get_historic_rates" ->
            [market_pair : {Market}, interval : Interval,
             paginator : Opt(Paginators)]
      [] op = "get_historic_trades" ->
            [market_pair : {Market}, paginator : Opt(Paginators)]
      [] op = "get_trade_history" ->
            [market_pair : {Some(Market)}, paginator : Opt(Paginators)]
      [] op = "get_order_history" ->
            [market_pair : {Some(Market)},
             order_status : Opt(SeqsUpTo(StatusInputs, MaxStatuses)),
             paginator : Opt(Paginators)]
      [] op = "get_price_ticker" -> [market_pair : {Market}]
      [] op = "get_account_balances" -> [paginator : {None}]
      [] op = "enums_from_domain" ->
            [status : OrderStatus, order_type : OrderType, side : Side]
      [] op = "enums_from_native" ->
            [status : NashOrderStatus, order_type : NashOrderType,
             side : BuyOrSell]
      [] op = "order_book" -> [market_pair : {Market}]
      [] op = "cancel_all_orders" -> [market_pair : Opt({Market})]
      [] op = "cancel_order" -> [id : OrderIds, market_pair : Opt({Market})]
      [] op = "get_all_open_orders" -> {<<>>}
      [] op \in {"limit_buy", "limit_sell"} ->
            [time_in_force : TimeInForce, post_only : BOOLEAN,
             market_pair : {Market}, size : Sizes, price : Prices]
      [] op \in {"market_sell", "market_buy"} ->
            [market_pair : {Market}, size : Sizes]
      [] op = "get_order" -> [id : OrderIds]
      [] op \in {"subscribe", "coinbase_subscribe"} -> Subscription
      [] op = "websocket_response" -> SubscriptionResponse
      [] op = "unwrap_response" -> Replies(CancelOrderResponses)

\* collect::<Result<Vec<_>>>(): the first error, or every value
Collect(rs) ==
    IF \E i \in DOMAIN rs : rs[i].kind = "Err"
    THEN rs[CHOOSE i \in DOMAIN rs :
                rs[i].kind = "Err" /\ \A j \in 1..(i - 1) : rs[j].kind = "Ok"]
    ELSE Ok([i \in DOMAIN rs |-> rs[i].v])

\* resp.candles.into_iter().map(Into::into).collect()
Candles_of(resp) == [i \in DOMAIN resp.candles |-> Candle_from(resp.candles[i])]

\* resp.trades.into_iter().map(Into::into).collect()
Trades_of(resp) == [i \in DOMAIN resp.trades |-> Trade_from(resp.trades[i])]

\* resp.orders.into_iter().map(Into::into).collect()
Orders_of(resp) == [i \in DOMAIN resp.orders |-> Order_from(resp.orders[i])]

\* the statuses with no native counterpart left out of the filter
Status_filter_dropping(order_status) ==
    IF ~order_status.some THEN Ok(None)
    ELSE Ok(Some(Somes([i \in DOMAIN order_status.v |->
                          NashOrderStatus_try_from(order_status.v[i])])))

\* the order_status filter of a GetOrderHistoryRequest as the native filter
Status_filter(order_status) ==
    IF ~order_status.some THEN Ok(None)
    ELSE LET rs == Collect([i \in DOMAIN order_status.v |->
                              NashOrderStatus_try_from(order_status.v[i])])
         IN  IF rs.kind = "Err" THEN rs ELSE Ok(Some(rs.v))

---------------------------------------------------------------------------
(* ExchangeMarketData for Nash *)

\* TryFrom<&GetHistoricRatesRequest> for ListCandlesRequest, after the paginator
ListCandlesRequest(req, sp) ==
    [market |-> req.market_pair, chronological |-> None, before |-> sp[1],
     interval |-> Some(CandleInterval_try_from(req.interval).v),
     limit |-> sp[2], range |-> sp[3]]

get_historic_rates ==
    /\ pc = "start" /\ call.op = "get_historic_rates"
    /\ LET sp == try_split_paginator(call.req.paginator)
       IN  /\ split' = sp
           /\ IF sp.kind = "Err" THEN ret' = sp /\ sent' = <<>>
              ELSE IF CandleInterval_try_from(call.req.interval).kind = "Err"
              THEN /\ ret' = Panic("Couldn't convert Interval to CandleInterval.")
                   /\ sent' = <<>>
              ELSE \E reply \in Replies([candles :
                                            SeqsUpTo(NativeCandles, MaxItems)]) :
                     /\ sent' = <<Exchange("run",
                                    ListCandlesRequest(call.req, sp.v), reply)>>
                     /\ ret' = LET r == unwrap_response(reply)
                                IN  IF r.kind = "Err" THEN r ELSE Ok(Candles_of(r.v))
    /\ pc' = "done"
    /\ UNCHANGED <<call, infoVars>>

get_historic_trades ==
    /\ pc = "start" /\ call.op = "get_historic_trades"
    /\ LET sp == try_split_paginator(call.req.paginator)
       IN  /\ split' = sp
           /\ IF sp.kind = "Err" THEN ret' = sp /\ sent' = <<>>
              ELSE \E reply \in Replies([trades :
                                            SeqsUpTo(NativeTrades, MaxItems)]) :
                     /\ sent' = <<Exchange("run",
                                    [market |-> call.req.market_pair,
                                     before |-> sp.v[1], limit |-> sp.v[2]],
                                    reply)>>
                     /\ ret' = LET r == unwrap_response(reply)
                                IN  IF r.kind = "Err" THEN r ELSE Ok(Trades_of(r.v))
    /\ pc' = "done"
    /\ UNCHANGED <<call, infoVars>>

\* the request sent once more when the transport fails
get_price_ticker_retrying ==
    /\ pc = "start" /\ call.op = "get_price_ticker"
    /\ \E first \in Replies(TickerResponses) :
         IF first.kind = "Err"
         THEN \E reply \in Replies(TickerResponses) :
                /\ sent' = <<Exchange("run", [market |-> call.req.market_pair], first),
                             Exchange("run", [market |-> call.req.market_pair], reply)>>
                /\ ret' = LET r == unwrap_response(reply)
                           IN  IF r.kind = "Err" THEN r ELSE Ok(Ticker_from(r.v))
         ELSE /\ sent' = <<Exchange("run", [market |-> call.req.market_pair], first)>>
              /\ ret' = LET r == unwrap_response(first)
                         IN  IF r.kind = "Err" THEN r ELSE Ok(Ticker_from(r.v))
    /\ pc' = "done"
    /\ UNCHANGED <<call, split, infoVars>>

get_price_ticker ==
    /\ pc = "start" /\ call.op = "get_price_ticker"
    /\ \E reply \in Replies(TickerResponses) :
         /\ sent' = <<Exchange("run", [market |-> call.req.market_pair], reply)>>
         /\ ret' = LET r == unwrap_response(reply)
                    IN  IF r.kind = "Err" THEN r ELSE Ok(Ticker_from(r.v))
    /\ pc' = "done"
    /\ UNCHANGED <<call, split, infoVars>>

---------------------------------------------------------------------------
(* ExchangeAccount for Nash *)

get_account_balances ==
    /\ pc = "start" /\ call.op = "get_account_balances"
    /\ \E reply \in Replies(BalancesResponses) :
         /\ sent' = <<Exchange("run_http", [filter |-> None], reply)>>
         /\ LET resp == unwrap_response(reply)
            IN  IF resp.kind = "Err" THEN ret' = resp
                ELSE IF ~(DOMAIN resp.v.state_channel \subseteq DOMAIN resp.v.in_orders)
                THEN ret' = Panic("Couldn't get asset")
                ELSE \E keys \in KeyOrders(resp.v.state_channel) :
                       ret' = Ok([i \in DOMAIN keys |-> Balance_of(resp.v, keys[i])])
    /\ pc' = "done"
    /\ UNCHANGED <<call, split, infoVars>>

get_order_history ==
    /\ pc = "start" /\ call.op = "get_order_history"
    /\ LET sp == try_split_paginator(call.req.paginator)
           status == Status_filter(call.req.order_status)
       IN  /\ split' = sp
           /\ IF sp.kind = "Err" THEN ret' = sp /\ sent' = <<>>
              ELSE IF status.kind = "Err" THEN ret' = status /\ sent' = <<>>
              ELSE \E reply \in Replies([orders :
                                            SeqsUpTo(NativeOrders, MaxItems)]) :
                     /\ sent' = <<Exchange("run_http",
                                    [market |-> call.req.market_pair,
                                     before |-> sp.v[1], limit |-> sp.v[2],
                                     range |-> sp.v[3], buy_or_sell |-> None,
                                     order_type |-> None, status |-> status.v],
                                    reply)>>
                     /\ ret' = LET r == unwrap_response(reply)
                                IN  IF r.kind = "Err" THEN r ELSE Ok(Orders_of(r.v))
    /\ pc' = "done"
    /\ UNCHANGED <<call, infoVars>>

get_trade_history ==
    /\ pc = "start" /\ call.op = "get_trade_history"
    /\ LET sp == try_split_paginator(call.req.paginator)
       IN  /\ split' = sp
           /\ IF sp.kind = "Err" THEN ret' = sp /\ sent' = <<>>
              ELSE \E reply \in Replies([trades :
                                            SeqsUpTo(NativeTrades, MaxItems)]) :
                     /\ sent' = <<Exchange("run_http",
                                    [market |-> call.req.market_pair,
                                     before |-> sp.v[1], limit |-> sp.v[2],
                                     range |-> sp.v[3]],
                                    reply)>>
                     /\ ret' = LET r == unwrap_response(reply)
                                IN  IF r.kind = "Err" THEN r ELSE Ok(Trades_of(r.v))
    /\ pc' = "done"
    /\ UNCHANGED <<call, infoVars>>

---------------------------------------------------------------------------
(* The enum translations, each way and back *)

\* the three values a translation step starts from
EnumsAt == IF pc = "start" THEN [f \in EnumFields |-> Ok(call.req[f])] ELSE ret

domain_into_native ==
    /\ <<call.op, pc>> \in {<<"enums_from_domain", "start">>,
                            <<"enums_from_native", "domain">>}
    /\ ret' = [status |-> IF EnumsAt.status.kind = "Ok"
                          THEN NashOrderStatus_try_from(EnumsAt.status.v)
                          ELSE EnumsAt.status,
               order_type |-> IF EnumsAt.order_type.kind = "Ok"
                              THEN NashOrderType_try_from(EnumsAt.order_type.v)
                              ELSE EnumsAt.order_type,
               side |-> IF EnumsAt.side.kind = "Ok"
                        THEN Ok(BuyOrSell_from(EnumsAt.side.v))
                        ELSE EnumsAt.side]
    /\ pc' = IF pc = "start" THEN "native" ELSE "done"
    /\ UNCHANGED <<call, split, sent, infoVars>>

native_into_domain ==
    /\ <<call.op, pc>> \in {<<"enums_from_native", "start">>,
                            <<"enums_from_domain", "native">>}
    /\ ret' = [status |-> IF EnumsAt.status.kind = "Ok"
                          THEN Ok(OrderStatus_from(EnumsAt.status.v))
                          ELSE EnumsAt.status,
               order_type |-> IF EnumsAt.order_type.kind = "Ok"
                              THEN Ok(OrderType_from(EnumsAt.order_type.v))
                              ELSE EnumsAt.order_type,
               side |-> IF EnumsAt.side.kind = "Ok"
                        THEN Ok(Side_from(EnumsAt.side.v))
                        ELSE EnumsAt.side]
    /\ pc' = IF pc = "start" THEN "domain" ELSE "done"
    /\ UNCHANGED <<call, split, sent, infoVars>>

---------------------------------------------------------------------------
(* ExchangeMarketData and ExchangeAccount for Nash, continued *)

order_book ==
    /\ pc = "start" /\ call.op = "order_book"
    /\ \E reply \in Replies(OrderbookResponses) :
         /\ sent' = <<Exchange("run", [market |-> call.req.market_pair], reply)>>
         /\ ret' = LET r == unwrap_response(reply)
                    IN  IF r.kind = "Err" THEN r ELSE OrderBookResponse_from(r.v)
    /\ pc' = "done"
    /\ UNCHANGED <<call, split, infoVars>>

cancel_all_orders ==
    /\ pc = "start" /\ call.op = "cancel_all_orders"
    /\ LET req == CancelAllOrders_from(call.req)
       IN  IF req.kind = "Panic" THEN ret' = req /\ sent' = <<>>
           ELSE \E reply \in Replies([accepted : BOOLEAN]) :
                  /\ sent' = <<Exchange("run_http", req.v, reply)>>
                  /\ ret' = IF reply.kind = "Err"
                            THEN Err(OpenLimitsError_from(reply.err))
                            ELSE Ok(<<>>)
    /\ pc' = "done"
    /\ UNCHANGED <<call, split, infoVars>>

cancel_order ==
    /\ pc = "start" /\ call.op = "cancel_order"
    /\ LET req == CancelOrderRequest_from(call.req)
       IN  IF req.kind = "Panic" THEN ret' = req /\ sent' = <<>>
           ELSE \E reply \in Replies(CancelOrderResponses) :
                  /\ sent' = <<Exchange("run_http", req.v, reply)>>
                  /\ ret' = LET r == unwrap_response(reply)
                             IN  IF r.kind = "Err" THEN r
                                 ELSE Ok(OrderCanceled_from(r.v))
    /\ pc' = "done"
    /\ UNCHANGED <<call, split, infoVars>>

get_all_open_orders ==
    /\ pc = "start" /\ call.op = "get_all_open_orders"
    /\ \E reply \in Replies([orders : SeqsUpTo(NativeOrders, MaxItems)]) :
         /\ sent' = <<Exchange("run",
                        [market |-> "", before |-> None, buy_or_sell |-> None,
                         limit |-> Some(100), status |-> Some(<<Nash("Open")>>),
                         order_type |-> None, range |-> None],
                        reply)>>
         /\ ret' = LET r == unwrap_response(reply)
                    IN  IF r.kind = "Err" THEN r ELSE Ok(Orders_of(r.v))
    /\ pc' = "done"
    /\ UNCHANGED <<call, split, infoVars>>

limit_buy ==
    /\ pc = "start" /\ call.op = "limit_buy"
    /\ \E now \in 0..MaxTime, reply \in Replies(PlaceOrderResponses) :
         /\ sent' = <<Exchange("run_http",
                        convert_limit_order(call.req, Nash("Buy"), now), reply)>>
         /\ ret' = LET r == unwrap_response(reply)
                    IN  IF r.kind = "Err" THEN r ELSE Ok(Order_from_placed(r.v))
    /\ pc' = "done"
    /\ UNCHANGED <<call, split, infoVars>>

limit_sell ==
    /\ pc = "start" /\ call.op = "limit_sell"
    /\ \E now \in 0..MaxTime, reply \in Replies(PlaceOrderResponses) :
         /\ sent' = <<Exchange("run_http",
                        convert_limit_order(call.req, Nash("Sell"), now), reply)>>
         /\ ret' = LET r == unwrap_response(reply)
                    IN  IF r.kind = "Err" THEN r ELSE Ok(Order_from_placed(r.v))
    /\ pc' = "done"
    /\ UNCHANGED <<call, split, infoVars>>

market_sell ==
    /\ pc = "start" /\ call.op = "market_sell"
    /\ \E reply \in Replies(PlaceOrderResponses) :
         /\ sent' = <<Exchange("run_http", convert_market_request(call.req), reply)>>
         /\ ret' = LET r == unwrap_response(reply)
                    IN  IF r.kind = "Err" THEN r ELSE Ok(Order_from_placed(r.v))
    /\ pc' = "done"
    /\ UNCHANGED <<call, split, infoVars>>

\* unimplemented!(..): the call aborts with "not implemented: .."
market_buy ==
    /\ pc = "start" /\ call.op = "market_buy"
    /\ ret' = Panic("not implemented: Market buys are not supported by nash.")
    /\ pc' = "done"
    /\ UNCHANGED <<call, split, sent, infoVars>>

get_order ==
    /\ pc = "start" /\ call.op = "get_order"
    /\ \E reply \in Replies([order : NativeOrders]) :
         /\ sent' = <<Exchange("run_http", [order_id |-> call.req.id], reply)>>
         /\ ret' = LET r == unwrap_response(reply)
                    IN  IF r.kind = "Err" THEN r ELSE Ok(Order_from(r.v.order))
    /\ pc' = "done"
    /\ UNCHANGED <<call, split, infoVars>>

---------------------------------------------------------------------------
(* The conversions of the WebSocket side and unwrap_response, applied *)

\* let req: SubscriptionRequest = subscription.into()
subscribe ==
    /\ pc = "start" /\ call.op = "subscribe"
    /\ ret' = SubscriptionRequest_from(call.req)
    /\ pc' = "done"
    /\ UNCHANGED <<call, split, sent, infoVars>>

\* let req: CoinbaseSubscription = subscription.into()
coinbase_subscribe ==
    /\ pc = "start" /\ call.op = "coinbase_subscribe"
    /\ ret' = CoinbaseSubscription_from(call.req)
    /\ pc' = "done"
    /\ UNCHANGED <<call, split, sent, infoVars>>

\* WebSocketResponse::try_from(SubscriptionResponseWrapper(message))
websocket_response ==
    /\ pc = "start" /\ call.op = "websocket_response"
    /\ ret' = WebSocketResponse_try_from(call.req)
    /\ pc' = "done"
    /\ UNCHANGED <<call, split, sent, infoVars>>

\* Nash::unwrap_response(resp)
unwrap_response_of_reply ==
    /\ pc = "start" /\ call.op = "unwrap_response"
    /\ ret' = unwrap_response(call.req)
    /\ pc' = "done"
    /\ UNCHANGED <<call, split, sent, infoVars>>

---------------------------------------------------------------------------
(* Exchange::new for Nash: the cache starts empty *)

\* ExchangeInfo::new
ExchangeInfo_new == <<>>

\* a cache that starts with a pair nobody retrieved
Nash_new_prefilled ==
    [exchange_info |->
        [s \in {Market} |->
            [symbol |-> s, base |-> "eth", quote |-> "btc",
             base_increment |-> Dec(1, 1), quote_increment |-> Dec(1, 2),
             min_base_trade_size |-> Some(Dec(1, 1)),
             min_quote_trade_size |-> Some(Dec(1, 2))]]]

Nash_new == [exchange_info |-> ExchangeInfo_new]

Tasks == 1..MaxTasks

InitInfo ==
    /\ exchange_info = Nash_new.exchange_info
    /\ tasks = [t \in Tasks |-> "idle"]
    /\ committed = None
    /\ last = [op |-> "none"]

Init ==
    /\ pc = "start"
    /\ \E op \in Ops : \E req \in Requests(op) : call = [op |-> op, req |-> req]
    /\ split = NoValue
    /\ sent = <<>>
    /\ ret = NoValue
    /\ InitInfo

Next ==
    \/ get_historic_rates
    \/ get_historic_trades
    \/ get_price_ticker
    \/ get_account_balances
    \/ get_order_history
    \/ get_trade_history
    \/ domain_into_native
    \/ native_into_domain
    \/ order_book
    \/ cancel_all_orders
    \/ cancel_order
    \/ get_all_open_orders
    \/ limit_buy
    \/ limit_sell
    \/ market_sell
    \/ market_buy
    \/ get_order
    \/ subscribe
    \/ coinbase_subscribe
    \/ websocket_response
    \/ unwrap_response_of_reply

Spec == Init /\ [][Next]_vars

---------------------------------------------------------------------------
(* The exchange-info cache: ExchangeInfoRetrieval for Nash over ExchangeInfo *)

Symbols == {"eth_btc", "btc_usdc"}

\* the names get_pair is asked for: the venue's symbols and one it never lists
Names == Symbols \cup {"ltc_btc"}

BaseOf(symbol) == IF symbol = "eth_btc" THEN "eth" ELSE "btc"

QuoteOf(symbol) == IF symbol = "eth_btc" THEN "btc" ELSE "usdc"

\* a market as the venue lists it, its base asset at precision p
NativeMarket(symbol, p) ==
    [asset_a |-> [asset |-> BaseOf(symbol), precision |-> p],
     asset_b |-> [asset |-> QuoteOf(symbol), precision |-> p + 1],
     min_trade_size_a |-> [amount |-> [value |-> Dec(1, p)]],
     min_trade_size_b |-> [amount |-> [value |-> Dec(1, p + 1)]]]

\* ListMarketsResponse.markets: symbol -> market, over some of the symbols
MarketMaps ==
    UNION {{[s \in A |-> NativeMarket(s, f[s])] : f \in [A -> 1..MaxPrecision]} :
            A \in SUBSET Symbols}

ListMarketsResponses == [markets : MarketMaps]

\* an error envelope taken for an empty list of markets
list_markets_ignoring_error(reply) ==
    IF reply.kind = "Err" THEN Err(NashProtocolError(reply.err))
    ELSE IF reply.env.kind = "Error" THEN Ok([markets |-> <<>>])
    ELSE Ok(reply.env.resp)

\* Nash::list_markets, given the transport's answer
list_markets(reply) ==
    IF reply.kind = "Err" THEN Err(NashProtocolError(reply.err))
    ELSE IF reply.env.kind = "Error"
    THEN Err(NashProtocolError([debug |-> reply.env.err]))
    ELSE Ok(reply.env.resp)

\* the pair named after its base asset instead of the market's symbol
MarketPair_of_named_by_base(symbol, v) ==
    [symbol |-> v.asset_a.asset,
     base |-> v.asset_a.asset,
     quote |-> v.asset_b.asset,
     base_increment |-> Dec(1, v.asset_a.precision),
     quote_increment |-> Dec(1, v.asset_b.precision),
     min_base_trade_size |-> Some(Decimal_from_str(v.min_trade_size_a.amount.value)),
     min_quote_trade_size |-> Some(Decimal_from_str(v.min_trade_size_b.amount.value))]

\* the closure of Nash::retrieve_pairs: one market as a MarketPair
MarketPair_of(symbol, v) ==
    [symbol |-> symbol,
     base |-> v.asset_a.asset,
     quote |-> v.asset_b.asset,
     base_increment |-> Dec(1, v.asset_a.precision),
     quote_increment |-> Dec(1, v.asset_b.precision),
     min_base_trade_size |-> Some(Decimal_from_str(v.min_trade_size_a.amount.value)),
     min_quote_trade_size |-> Some(Decimal_from_str(v.min_trade_size_b.amount.value))]

\* no pairs, instead of the error, when the markets cannot be listed
retrieve_pairs_or_default(reply, keys) ==
    LET r == list_markets(reply)
    IN  IF r.kind = "Err" THEN Ok(<<>>)
        ELSE Ok([i \in DOMAIN keys |-> MarketPair_of(keys[i], r.v.markets[keys[i]])])

\* Nash::retrieve_pairs, the markets iterated in the order `keys`
retrieve_pairs(reply, keys) ==
    LET r == list_markets(reply)
    IN  IF r.kind = "Err" THEN r
        ELSE Ok([i \in DOMAIN keys |-> MarketPair_of(keys[i], r.v.markets[keys[i]])])

\* an update in place, caught after its first pair: the pairs already cached stay
ExchangeInfo_refresh_in_place(info, pairs) ==
    IF pairs.kind = "Err" \/ pairs.v = <<>> THEN info
    ELSE [s \in DOMAIN info \cup {pairs.v[1].symbol} |->
            IF s = pairs.v[1].symbol THEN pairs.v[1] ELSE info[s]]

\* ExchangeInfo::refresh: the cache after a refresh that retrieved `pairs`
ExchangeInfo_refresh(info, pairs) ==
    IF pairs.kind = "Err" THEN info
    ELSE [s \in {pairs.v[i].symbol : i \in DOMAIN pairs.v} |->
            pairs.v[CHOOSE i \in DOMAIN pairs.v : pairs.v[i].symbol = s]]

UnknownMarketPair == [kind |-> "UnknownMarketPair"]

\* ExchangeInfo::get_pair
ExchangeInfo_get_pair(info, name) ==
    IF name \in DOMAIN info THEN Ok(info[name]) ELSE Err(UnknownMarketPair)

\* Nash::get_pair
Nash_get_pair(info, name) == ExchangeInfo_get_pair(info, name)

\* refresh_market_info up to its await: the request is with the transport
refresh_market_info_call(t) ==
    /\ tasks[t] = "idle"
    /\ tasks' = [tasks EXCEPT ![t] = "awaiting"]
    /\ last' = [op |-> "refresh_market_info_call", task |-> t]
    /\ UNCHANGED <<exchange_info, committed, callVars>>

\* refresh_market_info from the transport's answer to its return
refresh_market_info_return(t) ==
    /\ tasks[t] = "awaiting"
    /\ \E reply \in Replies(ListMarketsResponses) :
         \E keys \in KeyOrders(IF reply.kind = "Ok" /\ reply.env.kind = "Response"
                               THEN reply.env.resp.markets ELSE <<>>) :
            LET pairs == retrieve_pairs(reply, keys)
            IN  /\ exchange_info' = ExchangeInfo_refresh(exchange_info, pairs)
                /\ committed' = IF reply.kind = "Ok" /\ reply.env.kind = "Response"
                                THEN Some(reply.env.resp.markets) ELSE committed
                /\ last' = [op |-> "refresh_market_info", task |-> t,
                            reply |-> reply, ret |-> pairs,
                            had |-> DOMAIN exchange_info]
    /\ tasks' = [tasks EXCEPT ![t] = "idle"]
    /\ UNCHANGED callVars

get_pair(name) ==
    /\ last' = [op |-> "get_pair", name |-> name,
                ret |-> Nash_get_pair(exchange_info, name)]
    /\ UNCHANGED <<exchange_info, tasks, committed, callVars>>

InitCache ==
    /\ pc = "idle"
    /\ call = NoValue
    /\ split = NoValue
    /\ sent = <<>>
    /\ ret = NoValue
    /\ InitInfo

NextInfo ==
    \/ \E t \in Tasks : refresh_market_info_call(t)
    \/ \E t \in Tasks : refresh_market_info_return(t)
    \/ \E name \in Names : get_pair(name)

SpecInfo == InitCache /\ [][NextInfo]_vars

---------------------------------------------------------------------------
(* Properties of the pagination translator *)

PaginatedOps ==
    {"get_historic_rates", "get_historic_trades", "get_trade_history",
     "get_order_history"}

\* a paginator with exactly one of its two time bounds
PartialWindow(p) == p.some /\ (p.v.start_time.some # p.v.end_time.some)

InvalidParameterErr(r) == r.kind = "Err" /\ r.err.kind = "InvalidParameter"

\* C1: a call of get_historic_rates, get_trade_history or get_order_history
\* whose paginator has one time bound without the other returns an
\* invalid-parameter error and hands nothing to the transport.
C1_PartialWindowRejected ==
    (/\ pc = "done"
     /\ call.op \in {"get_historic_rates", "get_trade_history", "get_order_history"}
     /\ PartialWindow(call.req.paginator))
        => InvalidParameterErr(ret) /\ sent = <<>>

\* C2: a limit above the largest signed value of the native width makes
\* try_split_paginator return InvalidParameter; a limit within the signed
\* range comes out as the native limit of the same numeric value.
C2_LimitConversion ==
    (/\ pc = "done"
     /\ call.op \in PaginatedOps
     /\ call.req.paginator.some
     /\ call.req.paginator.v.limit.some)
        => LET v == call.req.paginator.v.limit.v
           IN  IF v > I64Max
               THEN split = Err(InvalidParameter(
                                   "Couldn't convert paginator limit to i64"))
               ELSE /\ split.kind = "Ok"
                    /\ split.v[2].some
                    /\ split.v[2].v = v

C2_Witness ==
    /\ pc = "done"
    /\ call.op = "get_trade_history"
    /\ call.req.paginator.some
    /\ call.req.paginator.v.limit = Some(U64Max)
    /\ InvalidParameterErr(split)
    /\ sent = <<>>

\* C3: for a paginator with both time bounds and a limit (if any) within the
\* native range, the native triple of try_split_paginator mapped back to the
\* domain carries the same `before` cursor, absent or character for
\* character, and the same limit.
C3_CursorRoundTrip ==
    (/\ pc = "done"
     /\ call.op \in PaginatedOps
     /\ call.req.paginator.some
     /\ call.req.paginator.v.start_time.some
     /\ call.req.paginator.v.end_time.some
     /\ (call.req.paginator.v.limit.some
            => call.req.paginator.v.limit.v <= I64Max))
        => /\ split.kind = "Ok"
           /\ LET back == join_paginator(split.v[1], split.v[2], split.v[3])
              IN  /\ back.before = call.req.paginator.v.before
                  /\ back.limit = call.req.paginator.v.limit

C3_Witness ==
    /\ pc = "done"
    /\ call.op = "get_order_history"
    /\ call.req.paginator.some
    /\ call.req.paginator.v.start_time = Some(0)
    /\ call.req.paginator.v.end_time = Some(MaxTime)
    /\ call.req.paginator.v.before = Some(<<"a", "b">>)
    /\ call.req.paginator.v.limit = Some(I64Max)
    /\ split.kind = "Ok"
    /\ split.v[1] = Some(<<"a", "b">>)
    /\ Len(sent) = 1

---------------------------------------------------------------------------
(* Properties of the enum translations *)

NashSupportedStatus == {"Open", "Filled", "Canceled", "Pending"}

NashSupportedType == {"Limit", "Market", "StopLimit", "StopMarket"}

\* C4: a supported domain OrderStatus, OrderType or Side translated to the
\* native enum and back is the value it was; a native value translated to
\* the domain and back is the native value it was.
C4_EnumRoundTrip ==
    pc = "done" =>
        /\ call.op = "enums_from_domain" =>
            /\ call.req.status \in NashSupportedStatus
                    => ret.status = Ok(call.req.status)
            /\ call.req.order_type \in NashSupportedType
                    => ret.order_type = Ok(call.req.order_type)
            /\ ret.side = Ok(call.req.side)
        /\ call.op = "enums_from_native" =>
            \A f \in EnumFields : ret[f] = Ok(call.req[f])

C4_Witness ==
    /\ pc = "done"
    /\ call.op = "enums_from_domain"
    /\ call.req = [status |-> "Pending", order_type |-> "StopMarket", side |-> "Sell"]
    /\ ret = [status |-> Ok("Pending"), order_type |-> Ok("StopMarket"),
              side |-> Ok("Sell")]

---------------------------------------------------------------------------
(* Properties of the response translations *)

\* a decimal in units of 10^-UnitScale, the finest scale a result has
UnitScale == PriceScale + 1

Units(d) == d.num * 10^(UnitScale - d.scale)

\* C5: a get_account_balances call that returns Ok returns exactly one
\* Balance per asset of the response's state-channel map, with free the
\* state-channel amount of that asset and total = free + its in-orders amount.
C5_BalanceTotal ==
    (pc = "done" /\ call.op = "get_account_balances" /\ ret.kind = "Ok")
        => LET resp == sent[1].reply.env.resp
           IN  /\ Len(ret.v) = Cardinality(DOMAIN resp.state_channel)
               /\ \A a \in DOMAIN resp.state_channel :
                    Cardinality({i \in DOMAIN ret.v : ret.v[i].asset = a}) = 1
               /\ \A i \in DOMAIN ret.v :
                    LET b == ret.v[i]
                    IN  /\ b.asset \in DOMAIN resp.state_channel
                        /\ Units(b.free) = Units(resp.state_channel[b.asset])
                        /\ Units(b.total)
                             = Units(b.free) + Units(resp.in_orders[b.asset])

C5_Witness ==
    /\ pc = "done"
    /\ call.op = "get_account_balances"
    /\ ret.kind = "Ok"
    /\ Len(ret.v) = 2
    /\ \E i \in DOMAIN ret.v :
         /\ ret.v[i].asset = "eth"
         /\ sent[1].reply.env.resp.state_channel["eth"] = Dec(MaxAmount, 1)
         /\ sent[1].reply.env.resp.in_orders["eth"] = Dec(MaxAmount, 0)
         /\ Units(ret.v[i].total) = Units(Dec(11 * MaxAmount, 1))

\* C6: the Ticker of a ticker response has a price exactly when the response
\* has both a best bid and a best ask, whatever its 24h fields, and the
\* price is then their exact mean: twice the price is ask + bid.
C6_TickerMean ==
    (/\ pc = "done"
     /\ call.op = "get_price_ticker"
     /\ sent[1].reply.kind = "Ok"
     /\ sent[1].reply.env.kind = "Response")
        => LET resp == sent[1].reply.env.resp
           IN  /\ ret.kind = "Ok"
               /\ ret.v.price.some
                    <=> (resp.best_bid_price.some /\ resp.best_ask_price.some)
               /\ ret.v.price.some
                    => 2 * Units(ret.v.price.v)
                         = Units(resp.best_ask_price.v) + Units(resp.best_bid_price.v)

C6_Witness ==
    /\ pc = "done"
    /\ call.op = "get_price_ticker"
    /\ ret.kind = "Ok"
    /\ sent[1].reply.env.resp.best_bid_price = Some(Dec(PriceBase, PriceScale))
    /\ sent[1].reply.env.resp.best_ask_price = Some(Dec(PriceBase + 2, PriceScale))
    /\ sent[1].reply.env.resp.high_price_24h = None
    /\ ret.v.price.some
    /\ Units(ret.v.price.v) = Units(Dec(PriceBase + 1, PriceScale))

---------------------------------------------------------------------------
(* Properties of the exchange-info cache *)

IsResponse(reply) == reply.kind = "Ok" /\ reply.env.kind = "Response"

\* what get_pair is to answer for `name` when `markets` is the snapshot cached
SnapshotAnswer(markets, name) ==
    IF name \in DOMAIN markets
    THEN Ok([symbol |-> name,
             base |-> markets[name].asset_a.asset,
             quote |-> markets[name].asset_b.asset,
             base_increment |-> Dec(1, markets[name].asset_a.precision),
             quote_increment |-> Dec(1, markets[name].asset_b.precision),
             min_base_trade_size |-> Some(markets[name].min_trade_size_a.amount.value),
             min_quote_trade_size |-> Some(markets[name].min_trade_size_b.amount.value)])
    ELSE Err(UnknownMarketPair)

\* the markets of the last refresh that succeeded, none before the first
LastSnapshot == IF committed.some THEN committed.v ELSE <<>>

\* task t's refresh_market_info returns in this step
RefreshReturns(t) == tasks[t] = "awaiting" /\ tasks'[t] = "idle"

\* C7: get_pair fails with "unknown market pair" for every symbol until a
\* refresh has succeeded; from then on it returns the pair data of the last
\* successful snapshot for a symbol of that snapshot and fails for any other.
C7_GetPairFollowsSnapshot ==
    last.op = "get_pair"
        => /\ ~committed.some => last.ret = Err(UnknownMarketPair)
           /\ committed.some => last.ret = SnapshotAnswer(committed.v, last.name)

C7_Witness ==
    /\ last.op = "get_pair"
    /\ last.name = "eth_btc"
    /\ committed.some
    /\ "eth_btc" \in DOMAIN committed.v
    /\ last.ret.kind = "Ok"
    /\ last.ret.v.symbol = "eth_btc"
    /\ last.ret.v.base_increment = Dec(1, MaxPrecision)

\* C8: a refresh_market_info whose transport answer is an error leaves the
\* cache as it was: get_pair answers every name as it did before the refresh.
C8_FailedRefreshKeepsCache ==
    [][\A t \in Tasks :
         (RefreshReturns(t) /\ ~IsResponse(last'.reply))
            => \A name \in Names :
                 Nash_get_pair(exchange_info', name) = Nash_get_pair(exchange_info, name)]_vars

C8_Witness ==
    /\ last.op = "refresh_market_info"
    /\ ~IsResponse(last.reply)
    /\ last.ret.kind = "Err"
    /\ DOMAIN exchange_info = Symbols

\* C9: a refresh_market_info that succeeds leaves the cache with exactly the
\* symbols of the markets it retrieved, each with the data of those markets:
\* get_pair then fails for a symbol the new snapshot lacks, cached before or not.
C9_RefreshReplaces ==
    [][\A t \in Tasks :
         (RefreshReturns(t) /\ IsResponse(last'.reply))
            => /\ DOMAIN exchange_info' = DOMAIN last'.reply.env.resp.markets
               /\ \A name \in Names :
                    Nash_get_pair(exchange_info', name)
                        = SnapshotAnswer(last'.reply.env.resp.markets, name)]_vars

C9_Witness ==
    /\ last.op = "refresh_market_info"
    /\ IsResponse(last.reply)
    /\ last.had = Symbols
    /\ DOMAIN last.reply.env.resp.markets = {"btc_usdc"}
    /\ DOMAIN exchange_info = {"btc_usdc"}
    /\ exchange_info["btc_usdc"].base_increment = Dec(1, MaxPrecision)

\* C10: in every state, with refreshes in flight or not, the cache a reader
\* looks into is one whole snapshot, the last one a refresh installed (the
\* empty one before the first): get_pair answers every name from it, and the
\* answer a reader has just got is that snapshot's.
C10_WholeSnapshot ==
    /\ \A name \in Names :
         ExchangeInfo_get_pair(exchange_info, name) = SnapshotAnswer(LastSnapshot, name)
    /\ last.op = "get_pair"
          => last.ret = SnapshotAnswer(LastSnapshot, last.name)

C10_Witness ==
    /\ last.op = "get_pair"
    /\ last.ret.kind = "Ok"
    /\ \E t \in Tasks : tasks[t] = "awaiting"
    /\ DOMAIN exchange_info = {"eth_btc"}

---------------------------------------------------------------------------
(* Properties of the WebSocket normalization *)

NashSubscriptions ==
    {"OrderBookUpdates", "Trades", "AccountOrders", "AccountTrades",
     "AccountBalance"}

CoinbaseSubscriptions == {"OrderBookUpdates"}

\* C11: mapping a Subscription variant the adapter does not support (Nash:
\* any but OrderBookUpdates, Trades, AccountOrders, AccountTrades,
\* AccountBalance; Coinbase: any but OrderBookUpdates) to the native request
\* returns a typed error to the caller, and no native request comes of it.
C11_UnsupportedSubscriptionIsErr ==
    /\ (/\ pc = "done"
        /\ call.op = "subscribe"
        /\ call.req.variant \notin NashSubscriptions) => ret.kind = "Err"
    /\ (/\ pc = "done"
        /\ call.op = "coinbase_subscribe"
        /\ call.req.variant \notin CoinbaseSubscriptions) => ret.kind = "Err"

\* every price string of an order-book message is a decimal numeral
PricesParse(book) ==
    /\ \A i \in DOMAIN book.asks : Decimal_parse(book.asks[i].price).kind = "Ok"
    /\ \A i \in DOMAIN book.bids : Decimal_parse(book.bids[i].price).kind = "Ok"

\* the class and, for Generic, the message type a push message is to have
ClassOf(kind) ==
    CASE kind = "Orderbook" -> <<"Generic", "OrderBook">>
      [] kind = "Trades" -> <<"Generic", "Trades">>
      [] OTHER -> <<"Raw">>

\* ret is the class of response that `message` is to become
Classified(message) ==
    /\ ret.kind = "Ok"
    /\ ret.v.class = ClassOf(message.kind)[1]
    /\ ret.v.class = "Generic" => ret.v.message.type = ClassOf(message.kind)[2]
    /\ ret.v.class = "Raw" => ret.v.raw = message

C18_FilterKeepsEveryValue ==
    (/\ pc = "done"
     /\ call.op = "subscribe"
     /\ call.req.variant = "AccountOrders")
        => LET f == call.req.account_orders
               unsupported ==
                  \/ f.status.some
                       /\ \E i \in DOMAIN f.status.v :
                            NashOrderStatus_try_from(f.status.v[i]).kind = "Err"
                  \/ f.order_type.some
                       /\ \E i \in DOMAIN f.order_type.v :
                            NashOrderType_try_from(f.order_type.v[i]).kind = "Err"
           IN  IF unsupported THEN ret.kind = "Err"
               ELSE /\ ret.kind = "Ok"
                    /\ f.status.some
                         => Len(ret.v.filter.status.v) = Len(f.status.v)
                    /\ f.order_type.some
                         => Len(ret.v.filter.order_type.v) = Len(f.order_type.v)

---------------------------------------------------------------------------
(* Properties of the error handling of the capability calls *)

\* the methods of ExchangeMarketData and ExchangeAccount for Nash
TraitOps ==
    {"get_historic_rates", "get_historic_trades", "get_price_ticker",
     "order_book", "cancel_all_orders", "cancel_order", "get_account_balances",
     "get_all_open_orders", "get_order_history", "get_trade_history",
     "limit_buy", "limit_sell", "market_sell", "market_buy", "get_order"}

\* the methods that hand the transport's answer to unwrap_response
UnwrapOps == TraitOps \ {"cancel_all_orders", "market_buy"}

\* the transport answered the call, with `reply`
Answered == pc = "done" /\ call.op \in TraitOps /\ Len(sent) = 1

\* C13: market_buy returns an unsupported-operation error value for every
\* request, and hands nothing to the transport.
C13_MarketBuyIsErr ==
    (pc = "done" /\ call.op = "market_buy")
        => /\ ret.kind = "Err"
           /\ sent = <<>>

\* C14: an operation whose transport answer is an envelope carrying an error
\* returns an error to the caller, never a success value.
C14_EnvelopeErrorIsErr ==
    (/\ Answered
     /\ sent[1].reply.kind = "Ok"
     /\ sent[1].reply.env.kind = "Error") => ret.kind = "Err"

\* the intervals the venue offers
NashIntervals ==
    {"OneMinute", "FiveMinutes", "FifteenMinutes", "ThirtyMinutes", "OneHour",
     "SixHours", "TwelveHours", "OneDay"}

\* a translation error: the kinds of error the request conversions return
TranslationErr(r) ==
    r.kind = "Err" /\ r.err.kind \in {"InvalidParameter", "MissingImplementation"}

C16_UnwrapResponse ==
    /\ (pc = "done" /\ call.op = "unwrap_response")
            => CASE call.req.kind = "Err" ->
                        ret = Err(NashProtocolError(call.req.err))
                 [] call.req.kind = "Ok" /\ call.req.env.kind = "Error" ->
                        ret = Err(NashProtocolError(call.req.env.err))
                 [] call.req.kind = "Ok" /\ call.req.env.kind = "Response" ->
                        ret = Ok(call.req.env.resp)
    /\ (Answered /\ call.op \in UnwrapOps)
            => CASE sent[1].reply.kind = "Err" ->
                        ret = Err(NashProtocolError(sent[1].reply.err))
                 [] sent[1].reply.kind = "Ok" /\ sent[1].reply.env.kind = "Error" ->
                        ret = Err(NashProtocolError(sent[1].reply.env.err))
                 [] OTHER -> ret.kind # "Err"

C16_Witness ==
    /\ pc = "done"
    /\ call.op = "unwrap_response"
    /\ call.req = EnvelopeError("invalid_signature")
    /\ ret = Err(NashProtocolError("invalid_signature"))

\* C17: every domain OrderStatus and OrderType translates to its one native
\* value or to InvalidParameter (any status but Open, Filled, Canceled,
\* Pending; the type Unknown); a get_order_history request that lists an
\* unsupported status fails with that error and nothing is sent.
C17_EnumTranslationTotal ==
    /\ (call.op = "enums_from_domain" /\ pc = "native")
            => /\ ret.status =
                    IF call.req.status \in NashSupportedStatus
                    THEN Ok(Nash(call.req.status))
                    ELSE Err(InvalidParameter("Had invalid order status for Nash"))
               /\ ret.order_type =
                    IF call.req.order_type \in NashSupportedType
                    THEN Ok(Nash(call.req.order_type))
                    ELSE Err(InvalidParameter("Had invalid order type for Nash"))
    /\ (/\ pc = "done"
        /\ call.op = "get_order_history"
        /\ call.req.order_status.some
        /\ \E i \in DOMAIN call.req.order_status.v :
             call.req.order_status.v[i] \notin NashSupportedStatus)
            => /\ InvalidParameterErr(ret)
               /\ sent = <<>>
               /\ split.kind = "Ok"
                    => ret = Err(InvalidParameter("Had invalid order status for Nash"))

C17_Witness ==
    /\ pc = "done"
    /\ call.op = "get_order_history"
    /\ call.req.order_status = Some(<<"Rejected">>)
    /\ split.kind = "Ok"
    /\ ret = Err(InvalidParameter("Had invalid order status for Nash"))
    /\ sent = <<>>

\* C19: get_historic_rates with an Interval the venue does not offer (any but
\* 1m, 5m, 15m, 30m, 1h, 6h, 12h, 1d) returns an error result to the caller
\* and hands nothing to the transport.
C19_UnsupportedIntervalIsErr ==
    (/\ pc = "done"
     /\ call.op = "get_historic_rates"
     /\ call.req.interval \notin NashIntervals)
        => /\ ret.kind = "Err"
           /\ sent = <<>>

---------------------------------------------------------------------------
(* The cache's state machine: Uninitialized -> Ready *)

\* no refresh has succeeded yet
Uninitialized == ~committed.some

\* a refresh has succeeded
Ready == committed.some

\* C20: while every refresh so far has failed, get_pair fails with "unknown
\* market pair" for every symbol; the cache becomes Ready only in the return
\* of a refresh that succeeded; once Ready it stays Ready and keeps the
\* symbols of a snapshot, whatever later refreshes succeed or fail.
C20_ReadyOnlyBySuccess ==
    /\ [](Uninitialized
            => /\ \A name \in Names :
                    Nash_get_pair(exchange_info, name) = Err(UnknownMarketPair)
               /\ last.op = "get_pair" => last.ret = Err(UnknownMarketPair))
    /\ [][(Uninitialized /\ Ready')
            => /\ last'.op = "refresh_market_info"
               /\ IsResponse(last'.reply)
               /\ last'.ret.kind = "Ok"]_vars
    /\ [][Ready
            => /\ Ready'
               /\ DOMAIN exchange_info' = DOMAIN committed'.v
               /\ (last'.op = "refresh_market_info" /\ last'.ret.kind = "Err")
                    => exchange_info' = exchange_info]_vars

C20_Witness ==
    /\ Ready
    /\ last.op = "refresh_market_info"
    /\ last.ret.kind = "Err"
    /\ last.had = {"eth_btc"}
    /\ DOMAIN exchange_info = {"eth_btc"}

---------------------------------------------------------------------------
(* Properties of cancellation, trades and placed orders *)

\* C21: cancel_order or cancel_all_orders with a request whose market_pair
\* is absent returns an invalid-parameter error to the caller and sends
\* nothing to the exchange.
C21_MissingMarketPairIsErr ==
    (/\ pc = "done"
     /\ call.op \in {"cancel_order", "cancel_all_orders"}
     /\ ~call.req.market_pair.some)
        => /\ InvalidParameterErr(ret)
           /\ sent = <<>>

\* the domain Trade that the native trade `t` is to become
TradeAsClaimed(t) ==
    LET buy == t.direction = Nash("Buy")
        taker == t.account_side = Nash("Taker")
    IN  [buyer |-> Some(IF buy THEN t.taker_order_id ELSE t.maker_order_id),
         seller |-> Some(IF buy THEN t.maker_order_id ELSE t.taker_order_id),
         side |-> IF buy THEN "Buy" ELSE "Sell",
         liquidity |-> Some(IF taker THEN "Taker" ELSE "Maker"),
         fees |-> IF taker THEN t.taker_fee ELSE Dec(0, 0)]

\* two decimals of the same numeric value
SameNumber(a, b) == a.num * 10^b.scale = b.num * 10^a.scale

\* C22: every native trade of a trades response becomes a Trade whose
\* buyer and seller order ids follow the taker's direction (Buy: buyer =
\* taker, seller = maker; Sell: the reverse), both present, whose side is
\* the direction, whose liquidity is Taker exactly for account side Taker,
\* and whose fees are the taker fee for account side Taker and zero otherwise.
C22_TradeFromDirection ==
    (/\ pc = "done"
     /\ call.op \in {"get_historic_trades", "get_trade_history"}
     /\ ret.kind = "Ok")
        => LET trades == sent[1].reply.env.resp.trades
           IN  /\ Len(ret.v) = Len(trades)
               /\ \A i \in DOMAIN trades :
                    LET want == TradeAsClaimed(trades[i])
                    IN  /\ ret.v[i].buyer_order_id = want.buyer
                        /\ ret.v[i].seller_order_id = want.seller
                        /\ ret.v[i].side = want.side
                        /\ ret.v[i].liquidity = want.liquidity
                        /\ ret.v[i].fees.some
                        /\ SameNumber(ret.v[i].fees.v, want.fees)

C22_Witness ==
    /\ pc = "done"
    /\ call.op = "get_trade_history"
    /\ ret.kind = "Ok"
    /\ Len(ret.v) = 1
    /\ sent[1].reply.env.resp.trades[1].direction = Nash("Sell")
    /\ sent[1].reply.env.resp.trades[1].account_side = Nash("Maker")
    /\ ret.v[1].buyer_order_id = Some("o-maker")
    /\ ret.v[1].seller_order_id = Some("o-taker")
    /\ ret.v[1].fees = Some(Dec(0, 0))

PlacementOps == {"limit_buy", "limit_sell", "market_sell"}

\* the side of the method called
SideOf(op) == IF op = "limit_buy" THEN "Buy" ELSE "Sell"

\* the Order of a successful placement but for its side: id, market, type
\* and status of the response, size 0, and no price, remaining size, client
\* order id or trades
PlacedFromResponse ==
    LET resp == sent[1].reply.env.resp
    IN  /\ ret.v.id = resp.order_id
        /\ ret.v.market_pair = resp.market_name
        /\ Nash(ret.v.order_type) = resp.order_type
        /\ Nash(ret.v.status) = resp.status
        /\ Units(ret.v.size) = 0
        /\ ret.v.price = None
        /\ ret.v.remaining = None
        /\ ret.v.client_order_id = None
        /\ ret.v.trades = <<>>

\* C23 as stated: the Order of a successful limit_buy, limit_sell or
\* market_sell has the side of the method called (limit_buy: Buy,
\* limit_sell: Sell), the id, market, type and status of the response, size
\* 0, and no price, remaining size, client order id or trades.
C23_PlacedOrderSideOfMethod ==
    (pc = "done" /\ call.op \in PlacementOps /\ ret.kind = "Ok")
        => /\ call.op \in {"limit_buy", "limit_sell"} => ret.v.side = SideOf(call.op)
           /\ PlacedFromResponse

\* C23, amended: the same, the side being the buy_or_sell of the response.
C23_PlacedOrderFromResponse ==
    (pc = "done" /\ call.op \in PlacementOps /\ ret.kind = "Ok")
        => /\ Nash(ret.v.side) = sent[1].reply.env.resp.buy_or_sell
           /\ PlacedFromResponse

C23_Witness ==
    /\ pc = "done"
    /\ call.op = "limit_sell"
    /\ call.req.size = Dec(3, 1)
    /\ call.req.price = Dec(PriceBase + MaxTick, PriceScale)
    /\ sent[1].req.buy_or_sell = Nash("Sell")
    /\ ret.kind = "Ok"
    /\ ret.v.side = "Sell"
    /\ ret.v.size = Dec(0, 0)
    /\ ret.v.price = None

=============================================================================
